---- MODULE Spec2Model ----
(***************************************************************************)
(* readwise-mcp: an MCP server (src/src/index.ts) in front of the Readwise *)
(* highlights API client (src/src/services/readwise.ts).                   *)
(*                                                                         *)
(* The model covers process start-up (module loading, token resolution,    *)
(* handler registration, transport connection), the four request handlers  *)
(* and the three ReadwiseService methods with their upstream HTTP calls.   *)
(*                                                                         *)
(* Text that the code inspects character by character (the token sources)  *)
(* is a sequence of one-character strings; text that the code only builds  *)
(* or copies (messages, JSON output) is a TLA+ string.                     *)
(***************************************************************************)
EXTENDS Integers, Sequences, FiniteSets, TLC

VARIABLES
    argv,        \* process.argv.slice(2): a sequence of arguments
    env,         \* process.env.READWISE_API_TOKEN: <<>> unset, <<v>> set to v
    envFile,     \* the .env file of the working directory
    dotenvMajor, \* major version of the installed dotenv package
    pc,          \* position of the start-up code
    exit,        \* <<>> while the process runs, <<code>> once it has exited
    apiToken,    \* index.ts apiToken / the token of readwiseService: <<>> or <<tok>>
    handlers,    \* request handlers and process-level handlers are registered
    connected,   \* server.connect(transport) has resolved
    upstream,    \* pending HTTP requests of the axios instance, by request id
    awaiting,    \* call-tool handlers suspended at their await, by request id
    invoked,     \* number of call-tool invocations so far
    httpCount,   \* number of upstream HTTP requests issued so far
    lastReply,   \* <<>> or <<reply>>: the last response handed to the transport
    faults       \* uncaught exceptions / unhandled rejections swallowed so far

vars == <<argv, env, envFile, dotenvMajor, pc, exit, apiToken, handlers, connected,
          upstream, awaiting, invoked, httpCount, lastReply, faults>>

(***************************************************************************)
(* Bounds of the model.                                                    *)
(***************************************************************************)
MaxRequests == 2    \* call-tool requests a run receives
MaxBatch == 2       \* length of a create_highlights list
MaxFileLen == 2     \* characters of the READWISE_API_TOKEN value in .env
MaxFaults == 1      \* stray exceptions / rejections a run sees

(***************************************************************************)
(* Characters and character sequences of the token sources.                *)
(***************************************************************************)
QUOTE == "\""
SPACE == " "
FileChars == {"t", QUOTE, SPACE}

RECURSIVE SeqsUpTo(_, _)
SeqsUpTo(S, n) ==
    IF n = 0 THEN {<<>>}
    ELSE LET shorter == SeqsUpTo(S, n - 1)
         IN  shorter \cup {Append(s, c) : s \in {x \in shorter : Len(x) = n - 1}, c \in S}

IsSpace(c) == c = SPACE
IsQuote(c) == c = QUOTE

\* Length of the longest prefix of s without a quote ([^'"\r\n]+) and
\* without whitespace ([^\s\r\n]+).
RECURSIVE RunNotQuote(_)
RunNotQuote(s) ==
    IF s = <<>> \/ IsQuote(Head(s)) THEN 0 ELSE 1 + RunNotQuote(Tail(s))

RECURSIVE RunNotSpace(_)
RunNotSpace(s) ==
    IF s = <<>> \/ IsSpace(Head(s)) THEN 0 ELSE 1 + RunNotSpace(Tail(s))

RECURSIVE TrimLeft(_)
TrimLeft(s) == IF s # <<>> /\ IsSpace(Head(s)) THEN TrimLeft(Tail(s)) ELSE s

RECURSIVE TrimRight(_)
TrimRight(s) ==
    IF s # <<>> /\ IsSpace(s[Len(s)]) THEN TrimRight(SubSeq(s, 1, Len(s) - 1)) ELSE s

Trim(s) == TrimRight(TrimLeft(s))

(***************************************************************************)
(* The .env file: absent, present but unreadable, or readable.  A readable *)
(* file has at most one READWISE_API_TOKEN= line; line is <<>> when it has *)
(* none and <<v>> when the text between "=" and the end of the line is v.  *)
(***************************************************************************)
NoFile == [exists |-> FALSE, readable |-> FALSE, line |-> <<>>]
LockedFile == [exists |-> TRUE, readable |-> FALSE, line |-> <<>>]
FileWith(line) == [exists |-> TRUE, readable |-> TRUE, line |-> line]

\* The dotenv package is a dependency whose version the sources do not fix,
\* and its releases parse a value differently.  Release 5 drops the whitespace
\* before the value, then a quote at its start and a quote at its end, each
\* on its own, and trims what is left; release 16 trims the value and removes
\* its first and last character when both are quotes.
DotenvVersions == {"5", "16"}

dotenvParseLegacy(v) ==
    LET w == TrimLeft(v)
        a == IF w # <<>> /\ IsQuote(w[1]) THEN Tail(w) ELSE w
        b == IF Len(w) >= 2 /\ IsQuote(w[Len(w)]) THEN SubSeq(a, 1, Len(a) - 1) ELSE a
    IN  Trim(b)

dotenvParseCurrent(v) ==
    LET w == Trim(v)
    IN  IF Len(w) >= 2 /\ IsQuote(w[1]) /\ IsQuote(w[Len(w)])
        THEN SubSeq(w, 2, Len(w) - 1)
        ELSE w

\* dotenv's value of a KEY=value line.
dotenvParse(major, v) ==
    IF major = "5" THEN dotenvParseLegacy(v) ELSE dotenvParseCurrent(v)

\* dotenv.config(): every key of a readable .env that process.env does not
\* already hold is copied into process.env; failures are reported by value.
dotenvConfig(major, e, f) ==
    IF f.exists /\ f.readable /\ f.line # <<>> /\ e = <<>>
    THEN <<dotenvParse(major, f.line[1])>>
    ELSE e

\* envFile.match(/READWISE_API_TOKEN=(['"]?([^'"\r\n]+)['"]?|([^\s\r\n]+))/)
\* on the text v that follows "READWISE_API_TOKEN=" up to the end of the line:
\* <<>> for no match, else <<match[2] || match[3]>>.
envFileMatch(v) ==
    LET afterQuote == IF v # <<>> /\ IsQuote(v[1]) THEN Tail(v) ELSE v
        run2 == RunNotQuote(afterQuote)
        run3 == RunNotSpace(v)
    IN  IF run2 > 0 THEN <<SubSeq(afterQuote, 1, run2)>>
        ELSE IF run3 > 0 THEN <<SubSeq(v, 1, run3)>>
        ELSE <<>>

\* A variant that falls back to the empty token instead of throwing.
getApiToken_noThrow(e, f) ==
    IF e # <<>> /\ e[1] # <<>> THEN e
    ELSE IF f.exists /\ f.readable /\ f.line # <<>> /\ envFileMatch(f.line[1]) # <<>>
         THEN envFileMatch(f.line[1])
         ELSE << <<>> >>

\* getApiToken(): <<token>>, or <<>> when it throws.
getApiToken(e, f) ==
    IF e # <<>> /\ e[1] # <<>> THEN e
    ELSE IF f.exists /\ f.readable /\ f.line # <<>>
         THEN envFileMatch(f.line[1])
         ELSE <<>>

\* index.ts line 31: args.length > 0 ? args[0] : getApiToken()
resolveToken(args, e, f) ==
    IF Len(args) > 0 THEN <<args[1]>> ELSE getApiToken(e, f)

\* `Token ${apiToken}`
AuthPrefix == <<"T", "o", "k", "e", "n", " ">>
Authorization(token) == AuthPrefix \o token

(***************************************************************************)
(* JSON values: tagged records, so that values of different JSON types can *)
(* be compared.                                                            *)
(***************************************************************************)
JNull == [t |-> "null"]
JStr(s) == [t |-> "str", s |-> s]
JNum(n) == [t |-> "num", n |-> n]
JArr(items) == [t |-> "arr", items |-> items]
JObj(members) == [t |-> "obj", members |-> members]   \* sequence of [k, v]
EmptyObj == <<>>                                      \* {} : no own keys

\* A value that may be undefined (a missing argument bag, a missing property)
\* is <<>> when undefined and <<v>> when it is v.
Undefined == <<>>
Some(v) == <<v>>

\* JSON.stringify(value, null, 2), for strings that need no escaping.
RECURSIVE Stringify(_, _)
RECURSIVE StringifyItems(_, _)
RECURSIVE StringifyMembers(_, _)
Stringify(v, ind) ==
    CASE v.t = "null" -> "null"
      [] v.t = "num" -> ToString(v.n)
      [] v.t = "str" -> "\"" \o v.s \o "\""
      [] v.t = "arr" ->
            IF v.items = <<>> THEN "[]"
            ELSE "[\n" \o StringifyItems(v.items, ind \o "  ") \o "\n" \o ind \o "]"
      [] v.t = "obj" ->
            IF v.members = <<>> THEN "{}"
            ELSE "{\n" \o StringifyMembers(v.members, ind \o "  ") \o "\n" \o ind \o "}"
StringifyItems(items, ind) ==
    ind \o Stringify(Head(items), ind)
        \o (IF Len(items) = 1 THEN "" ELSE ",\n" \o StringifyItems(Tail(items), ind))
StringifyMembers(ms, ind) ==
    ind \o "\"" \o Head(ms).k \o "\": " \o Stringify(Head(ms).v, ind)
        \o (IF Len(ms) = 1 THEN "" ELSE ",\n" \o StringifyMembers(Tail(ms), ind))

(***************************************************************************)
(* Highlights: a function from the keys the caller supplied to their       *)
(* values.  Three of the eleven fields of the interface are modelled; the  *)
(* code treats every key alike.                                            *)
(***************************************************************************)
Fields == {"text", "note", "location"}
FieldValues(k) ==
    CASE k = "text" -> {JStr(""), JStr("a")}
      [] k = "note" -> {JStr(""), JStr(".tag n"), JNull}
      [] k = "location" -> {JStr(""), JNum(7)}

Highlights ==
    UNION { {h \in [D -> UNION {FieldValues(k) : k \in Fields}] :
                \A k \in D : h[k] \in FieldValues(k)} : D \in SUBSET Fields }

\* cleanHighlightData: a shallow copy in which every own key whose value is
\* the empty string holds null.
\* A variant that copies without replacing anything.
cleanHighlightData_keepEmpty(highlight) ==
    IF highlight = Undefined THEN EmptyObj ELSE highlight[1]

cleanHighlightData(highlight) ==
    IF highlight = Undefined THEN EmptyObj       \* { ...undefined } is {}
    ELSE [key \in DOMAIN highlight[1] |->
             IF highlight[1][key] = JStr("") THEN JNull ELSE highlight[1][key]]

(***************************************************************************)
(* ReadwiseService: what each method hands to the axios instance before it *)
(* suspends: [throws |-> FALSE, ...request].  The methods are async: an    *)
(* exception inside one rejects the promise it returns, Reject(message).   *)
(* Throw(message) is an exception thrown by the caller's own code.         *)
(***************************************************************************)
Post(body) == [throws |-> FALSE, method |-> "POST", path |-> "/highlights/", body |-> <<body>>]
Get == [throws |-> FALSE, method |-> "GET", path |-> "/highlights/", body |-> <<>>]
Throw(message) == [throws |-> TRUE, rejects |-> FALSE, message |-> message]
Reject(message) == [throws |-> TRUE, rejects |-> TRUE, message |-> message]

createHighlight(highlight) ==
    Post([highlights |-> <<cleanHighlightData(highlight)>>])

MapClean(highlights) ==
    [i \in DOMAIN highlights |-> cleanHighlightData(Some(highlights[i]))]

RECURSIVE Dedup(_)
Dedup(s) ==
    IF s = <<>> THEN <<>>
    ELSE LET init == Dedup(SubSeq(s, 1, Len(s) - 1))
         IN  IF \E i \in DOMAIN init : init[i] = s[Len(s)] THEN init
             ELSE Append(init, s[Len(s)])

\* A variant that sends each distinct highlight once.
createHighlights_dedup(highlights) ==
    IF highlights = Undefined
    THEN Reject("Cannot read properties of undefined (reading 'map')")
    ELSE Post([highlights |-> Dedup(MapClean(highlights[1]))])

\* highlights is Undefined when the argument bag has no highlights key.
createHighlights(highlights) ==
    IF highlights = Undefined
    THEN Reject("Cannot read properties of undefined (reading 'map')")
    ELSE Post([highlights |-> MapClean(highlights[1])])

getHighlights == Get

(***************************************************************************)
(* The call-tool handler (index.ts 112-159).                               *)
(***************************************************************************)
KnownTools == {"create_highlight", "create_highlights", "get_highlights"}

\* A variant whose last branch is a default instead of a name test.
callToolStart_defaultGet(name, args) ==
    IF name = "create_highlight" THEN createHighlight(args)
    ELSE IF name = "create_highlights"
    THEN IF args = Undefined
         THEN Throw("Cannot read properties of undefined (reading 'highlights')")
         ELSE createHighlights(IF "highlights" \in DOMAIN args[1]
                               THEN Some(args[1].highlights) ELSE Undefined)
    ELSE getHighlights

\* The handler up to its await or its synchronous return: the request the
\* client method it awaits has made, the rejection of that method, or the
\* error the handler itself throws (and catches) before it awaits anything.
callToolStart(name, args) ==
    IF name = "create_highlight" THEN createHighlight(args)
    ELSE IF name = "create_highlights"
    THEN IF args = Undefined
         THEN Throw("Cannot read properties of undefined (reading 'highlights')")
         ELSE createHighlights(IF "highlights" \in DOMAIN args[1]
                               THEN Some(args[1].highlights) ELSE Undefined)
    ELSE IF name = "get_highlights" THEN getHighlights
    ELSE Throw("Unknown tool: " \o name)

\* A variant that flags every result as an error.
toolResult_flagged(data) ==
    [content |-> <<[type |-> "text", text |-> Stringify(data, "")]>>, isError |-> TRUE]

\* The success return of the three branches.
toolResult(data) ==
    [content |-> <<[type |-> "text", text |-> Stringify(data, "")]>>, isError |-> FALSE]

\* A variant that returns the message without its prefix.
errorResult_bare(message) ==
    [content |-> <<[type |-> "text", text |-> message]>>, isError |-> TRUE]

\* The return of the catch block.
errorResult(message) ==
    [content |-> <<[type |-> "text", text |-> "Error: " \o message]>>, isError |-> TRUE]

\* What the upstream API can answer: a decoded response body, or a failure
\* (network error, non-2xx status) that axios rejects with.
Bodies ==
    { JArr(<<>>),
      JStr(""),
      JObj(<<[k |-> "detail", v |-> JNull]>>),
      JArr(<<JObj(<<[k |-> "id", v |-> JNum(1)], [k |-> "text", v |-> JStr("a")]>>),
             JObj(<<[k |-> "id", v |-> JNum(2)], [k |-> "tags", v |-> JArr(<<>>)]>>)>>) }
FailureMessages == {"Network Error", "Request failed with status code 401"}
Outcomes == {[ok |-> TRUE, data |-> b] : b \in Bodies}
            \cup {[ok |-> FALSE, message |-> m] : m \in FailureMessages}

Put(f, id, x) == [i \in DOMAIN f \cup {id} |-> IF i = id THEN x ELSE f[i]]
Drop(f, id) == [i \in DOMAIN f \ {id} |-> f[i]]

Running == exit = <<>>

CallReply(id, name, args, sent, outcome, result) ==
    [kind |-> "call_tool", id |-> id, name |-> name, args |-> args, sent |-> sent,
     outcome |-> outcome, result |-> result]

(***************************************************************************)
(* Start-up.                                                               *)
(***************************************************************************)
\* index.ts 12: loading services/readwise runs its top level: dotenv.config()
\* (line 6) and the default export new ReadwiseService(getApiToken()) (line
\* 149).  An exception there is uncaught: no handler is registered yet.
LoadService ==
    /\ Running /\ pc = "import"
    /\ env' = dotenvConfig(dotenvMajor, env, envFile)
    /\ IF getApiToken(env', envFile) = <<>>
       THEN exit' = <<1>> /\ pc' = pc
       ELSE exit' = exit /\ pc' = "main"
    /\ UNCHANGED <<argv, envFile, dotenvMajor, apiToken, handlers, connected, upstream, awaiting,
                   invoked, httpCount, lastReply, faults>>

\* index.ts 17-39: dotenv.config(), token resolution, new ReadwiseService.
ResolveToken ==
    /\ Running /\ pc = "main"
    /\ env' = dotenvConfig(dotenvMajor, env, envFile)
    /\ IF resolveToken(argv, env', envFile) = <<>>
       THEN exit' = <<1>> /\ pc' = pc /\ apiToken' = apiToken
       ELSE exit' = exit /\ pc' = "handlers" /\ apiToken' = resolveToken(argv, env', envFile)
    /\ UNCHANGED <<argv, envFile, dotenvMajor, handlers, connected, upstream, awaiting,
                   invoked, httpCount, lastReply, faults>>

\* index.ts 42-177: the server object, its four request handlers and the two
\* process-level handlers.
RegisterHandlers ==
    /\ Running /\ pc = "handlers"
    /\ handlers' = TRUE /\ pc' = "connect"
    /\ UNCHANGED <<argv, env, envFile, dotenvMajor, exit, apiToken, connected, upstream, awaiting,
                   invoked, httpCount, lastReply, faults>>

\* index.ts 180-189: runServer() and its catch.
RunServer(ok) ==
    /\ Running /\ pc = "connect"
    /\ IF ok
       THEN connected' = TRUE /\ pc' = "serving" /\ exit' = exit
       ELSE connected' = connected /\ pc' = pc /\ exit' = <<1>>
    /\ UNCHANGED <<argv, env, envFile, dotenvMajor, apiToken, handlers, upstream, awaiting,
                   invoked, httpCount, lastReply, faults>>

(***************************************************************************)
(* Serving.  The transport hands every incoming request to its handler at  *)
(* once; a handler runs until it returns or reaches its await.             *)
(***************************************************************************)
Serving == Running /\ connected /\ pc = "serving"

\* A variant whose handlers share one slot of the HTTP client.
CallTool_sharedSlot(name, args, cap) ==
    /\ Serving /\ invoked < cap
    /\ LET id == invoked + 1
           plan == callToolStart(name, args)
       IN  /\ invoked' = id
           /\ IF plan.throws
              THEN IF plan.rejects
                   THEN /\ awaiting' = Put(awaiting, id,
                                           [name |-> name, args |-> args, sent |-> 0,
                                            rejected |-> <<plan.message>>])
                        /\ UNCHANGED <<upstream, httpCount, lastReply>>
                   ELSE /\ lastReply' = <<CallReply(id, name, args, 0, <<>>,
                                                    errorResult(plan.message))>>
                        /\ UNCHANGED <<upstream, awaiting, httpCount>>
              ELSE /\ upstream' = Put(upstream, 1,
                                      [method |-> plan.method, path |-> plan.path,
                                       body |-> plan.body,
                                       auth |-> Authorization(apiToken[1])])
                   /\ awaiting' = Put(awaiting, id,
                                      [name |-> name, args |-> args, sent |-> 1,
                                       rejected |-> <<>>])
                   /\ httpCount' = httpCount + 1
                   /\ UNCHANGED lastReply
    /\ UNCHANGED <<argv, env, envFile, dotenvMajor, pc, exit, apiToken, handlers, connected, faults>>

\* A call-tool request arrives: index.ts 112-159 up to the await, together
\* with the client method it calls (readwise.ts 99-146).  The handler either
\* returns at once (its own throw, caught at 150) or suspends at its await:
\* on the upstream request the method made, or on the promise the method has
\* already rejected.  cap bounds the number of call-tool requests of the run.
CallTool(name, args, cap) ==
    /\ Serving /\ invoked < cap
    /\ LET id == invoked + 1
           plan == callToolStart(name, args)
       IN  /\ invoked' = id
           /\ IF plan.throws
              THEN IF plan.rejects
                   THEN /\ awaiting' = Put(awaiting, id,
                                           [name |-> name, args |-> args, sent |-> 0,
                                            rejected |-> <<plan.message>>])
                        /\ UNCHANGED <<upstream, httpCount, lastReply>>
                   ELSE /\ lastReply' = <<CallReply(id, name, args, 0, <<>>,
                                                    errorResult(plan.message))>>
                        /\ UNCHANGED <<upstream, awaiting, httpCount>>
              ELSE /\ upstream' = Put(upstream, id,
                                      [method |-> plan.method, path |-> plan.path,
                                       body |-> plan.body,
                                       auth |-> Authorization(apiToken[1])])
                   /\ awaiting' = Put(awaiting, id,
                                      [name |-> name, args |-> args, sent |-> 1,
                                       rejected |-> <<>>])
                   /\ httpCount' = httpCount + 1
                   /\ UNCHANGED lastReply
    /\ UNCHANGED <<argv, env, envFile, dotenvMajor, pc, exit, apiToken, handlers, connected, faults>>

\* A variant that issues the request once more when it fails.
HttpSettle_retry(id, outcome) ==
    /\ Serving /\ id \in DOMAIN upstream /\ id \in DOMAIN awaiting
    /\ IF outcome.ok \/ awaiting[id].sent > 1
       THEN /\ upstream' = Drop(upstream, id)
            /\ awaiting' = Drop(awaiting, id)
            /\ lastReply' = <<CallReply(id, awaiting[id].name, awaiting[id].args,
                                        awaiting[id].sent, <<outcome>>,
                                        IF outcome.ok THEN toolResult(outcome.data)
                                        ELSE errorResult(outcome.message))>>
            /\ UNCHANGED httpCount
       ELSE /\ awaiting' = [awaiting EXCEPT ![id].sent = 2]
            /\ httpCount' = httpCount + 1
            /\ UNCHANGED <<upstream, lastReply>>
    /\ UNCHANGED <<argv, env, envFile, dotenvMajor, pc, exit, apiToken, handlers, connected,
                   invoked, faults>>

\* The upstream call of request id settles: the client method returns
\* response.data or rethrows (readwise.ts 109-113, 127-131, 141-145) and the
\* handler returns its result or the result of its catch block.
HttpSettle(id, outcome) ==
    /\ Serving /\ id \in DOMAIN upstream /\ id \in DOMAIN awaiting
    /\ upstream' = Drop(upstream, id)
    /\ awaiting' = Drop(awaiting, id)
    /\ lastReply' = <<CallReply(id, awaiting[id].name, awaiting[id].args,
                                awaiting[id].sent, <<outcome>>,
                                IF outcome.ok THEN toolResult(outcome.data)
                                ELSE errorResult(outcome.message))>>
    /\ UNCHANGED <<argv, env, envFile, dotenvMajor, pc, exit, apiToken, handlers, connected,
                   invoked, httpCount, faults>>

\* The handler of request id, suspended at index.ts 129 on a promise the
\* client method rejected without making a request (readwise.ts 124,
\* 128-130), resumes in its catch block (index.ts 150-158).
AwaitRejected(id) ==
    /\ Serving /\ id \in DOMAIN awaiting /\ awaiting[id].rejected # <<>>
    /\ awaiting' = Drop(awaiting, id)
    /\ lastReply' = <<CallReply(id, awaiting[id].name, awaiting[id].args,
                                awaiting[id].sent, <<>>,
                                errorResult(awaiting[id].rejected[1]))>>
    /\ UNCHANGED <<argv, env, envFile, dotenvMajor, pc, exit, apiToken, handlers,
                   connected, upstream, invoked, httpCount, faults>>

\* index.ts 90-110.
ToolNames == <<"create_highlight", "create_highlights", "get_highlights">>
ListTools ==
    /\ Serving
    /\ lastReply' = <<[kind |-> "list_tools", result |-> [tools |-> ToolNames]]>>
    /\ UNCHANGED <<argv, env, envFile, dotenvMajor, pc, exit, apiToken, handlers, connected,
                   upstream, awaiting, invoked, httpCount, faults>>

\* index.ts 162-164.
ListResources ==
    /\ Serving
    /\ lastReply' = <<[kind |-> "list_resources", result |-> [resources |-> <<>>]]>>
    /\ UNCHANGED <<argv, env, envFile, dotenvMajor, pc, exit, apiToken, handlers, connected,
                   upstream, awaiting, invoked, httpCount, faults>>

\* index.ts 166-168: the handler throws; the server answers the request with
\* an error response.
ReadResource(uri) ==
    /\ Serving
    /\ lastReply' = <<[kind |-> "read_resource",
                       error |-> "Resource not found: " \o uri]>>
    /\ UNCHANGED <<argv, env, envFile, dotenvMajor, pc, exit, apiToken, handlers, connected,
                   upstream, awaiting, invoked, httpCount, faults>>

\* A variant that ends the process.
processHandler_exits(x) == <<1>>

\* index.ts 171-173 and 175-177: the bodies of the process-level handlers; x
\* is the exit state before, the result the exit state after.
processHandler(x) == x

\* An exception nothing catches reaches the process: with the handler of line
\* 171 registered it is swallowed, without it the process dies.
UncaughtException ==
    /\ Serving /\ faults < MaxFaults
    /\ faults' = faults + 1
    /\ exit' = IF handlers THEN processHandler(exit) ELSE <<1>>
    /\ UNCHANGED <<argv, env, envFile, dotenvMajor, pc, apiToken, handlers, connected,
                   upstream, awaiting, invoked, httpCount, lastReply>>

\* Likewise for a rejected promise nothing handles (line 175).
UnhandledRejection ==
    /\ Serving /\ faults < MaxFaults
    /\ faults' = faults + 1
    /\ exit' = IF handlers THEN processHandler(exit) ELSE <<1>>
    /\ UNCHANGED <<argv, env, envFile, dotenvMajor, pc, apiToken, handlers, connected,
                   upstream, awaiting, invoked, httpCount, lastReply>>

(***************************************************************************)
(* Inputs and specifications.                                              *)
(***************************************************************************)
CliToken == <<"c">>
EnvToken == <<"e">>
ArgvCases == {<<>>, << <<>> >>, <<CliToken>>, <<CliToken, <<"x">> >>}
EnvCases == {<<>>, << <<>> >>, <<EnvToken>>}
FileCases == {NoFile, LockedFile, FileWith(<<>>)}
             \cup {FileWith(<<v>>) : v \in SeqsUpTo(FileChars, MaxFileLen)}

ha == [text |-> JStr("a")]
hb == [text |-> JStr("a"), note |-> JStr(""), location |-> JNum(7)]
hc == [text |-> JStr(""), note |-> JStr(".tag n")]
hd == [note |-> JNull, location |-> JStr("")]
BatchHighlights == {ha, hb, hc, hd}

Req(name, args) == [name |-> name, args |-> args]

\* The requests of a client that exercises every branch of the handler.
Requests ==
    {Req("create_highlight", a) : a \in {Undefined, Some(ha), Some(hb)}}
    \cup {Req("create_highlights", a) :
            a \in {Undefined, Some(EmptyObj), Some([highlights |-> <<>>]),
                   Some([highlights |-> <<ha, hb>>]), Some([highlights |-> <<hb, hb>>])}}
    \cup {Req("get_highlights", a) : a \in {Undefined, Some(EmptyObj)}}
    \cup {Req(n, Some(EmptyObj)) : n \in {"nonexistent_tool", ""}}

\* The requests of a client that creates highlights of every shape.
PayloadRequests ==
    {Req("create_highlight", Some(h)) : h \in Highlights}
    \cup {Req("create_highlights", Some([highlights |-> hs])) :
            hs \in SeqsUpTo(BatchHighlights, MaxBatch)}
    \cup {Req("create_highlights", Some(EmptyObj))}

\* The requests of a client that only probes the server.
BootRequests ==
    {Req("get_highlights", Some(EmptyObj)), Req("create_highlight", Some(ha)),
     Req("create_highlights", Some(EmptyObj))}

Uris == {"readwise://highlights/1"}

InitWith(A, E, F) ==
    /\ argv \in A /\ env \in E /\ envFile \in F /\ dotenvMajor \in DotenvVersions
    /\ pc = "import" /\ exit = <<>> /\ apiToken = <<>>
    /\ handlers = FALSE /\ connected = FALSE
    /\ upstream = <<>> /\ awaiting = <<>>
    /\ invoked = 0 /\ httpCount = 0 /\ lastReply = <<>> /\ faults = 0

Step(Reqs, cap) ==
    \/ LoadService
    \/ ResolveToken
    \/ RegisterHandlers
    \/ \E ok \in BOOLEAN : RunServer(ok)
    \/ \E r \in Reqs : CallTool(r.name, r.args, cap)
    \/ \E id \in DOMAIN upstream : \E o \in Outcomes : HttpSettle(id, o)
    \/ \E id \in DOMAIN awaiting : AwaitRejected(id)
    \/ ListTools
    \/ ListResources
    \/ \E uri \in Uris : ReadResource(uri)
    \/ UncaughtException
    \/ UnhandledRejection

\* Serving: the token given on the command line or by the environment, a
\* client that may have MaxRequests call-tool requests outstanding at once.
Init == InitWith({<<>>, <<CliToken>>}, {<<EnvToken>>}, {NoFile})
Next == Step(Requests, MaxRequests)
Spec == Init /\ [][Next]_vars

\* Start-up: every combination of the three token sources, then one probe.
InitBoot == InitWith(ArgvCases, EnvCases, FileCases)
NextBoot == Step(BootRequests, 1)
SpecBoot == InitBoot /\ [][NextBoot]_vars

\* Payloads: one create request of every shape.
InitPayload == InitWith({<<CliToken>>}, {<<EnvToken>>}, {NoFile})
NextPayload == Step(PayloadRequests, 1)
SpecPayload == InitPayload /\ [][NextPayload]_vars

(***************************************************************************)
(* Properties.                                                             *)
(***************************************************************************)
CallReplied == lastReply # <<>> /\ lastReply[1].kind = "call_tool"
TextResult(text, isError) ==
    [content |-> <<[type |-> "text", text |-> text]>>, isError |-> isError]

\* The highlights a create request was given, in order.
InputHighlights(a) ==
    IF a.name = "create_highlight"
    THEN <<IF a.args = Undefined THEN EmptyObj ELSE a.args[1]>>
    ELSE a.args[1].highlights

IsCreate(a) == a.name \in {"create_highlight", "create_highlights"}

\* C1: for the three known tools, a failed upstream call and a failure to
\* interpret the arguments both end in the handler returning
\* {content: [{type: "text", text: "Error: " + message}], isError: true}; the
\* handler returns a result, it does not throw.
C1_FailureIsErrorResult ==
    CallReplied /\ lastReply[1].name \in KnownTools =>
        LET r == lastReply[1]
        IN  /\ "result" \in DOMAIN r
            /\ (r.outcome # <<>> /\ ~r.outcome[1].ok) =>
                   r.result = TextResult("Error: " \o r.outcome[1].message, TRUE)
            /\ (r.name = "create_highlights" /\ r.args = Undefined) =>
                   r.result = TextResult(
                       "Error: Cannot read properties of undefined (reading 'highlights')",
                       TRUE)
            /\ (r.name = "create_highlights" /\ r.args # Undefined
                    /\ "highlights" \notin DOMAIN r.args[1]) =>
                   r.result = TextResult(
                       "Error: Cannot read properties of undefined (reading 'map')", TRUE)

C1_Witness ==
    /\ CallReplied /\ lastReply[1].name = "create_highlight"
    /\ lastReply[1].outcome # <<>> /\ ~lastReply[1].outcome[1].ok
    /\ lastReply[1].result.isError

\* C2: a tool name other than the three known ones is answered, for every
\* argument value, with isError true and the single text
\* "Error: Unknown tool: <name>"; nothing is sent upstream.
C2_UnknownToolIsErrorResult ==
    CallReplied /\ lastReply[1].name \notin KnownTools =>
        /\ lastReply[1].result = TextResult("Error: Unknown tool: " \o lastReply[1].name, TRUE)
        /\ lastReply[1].sent = 0 /\ lastReply[1].outcome = <<>>

C2_Witness ==
    /\ CallReplied /\ lastReply[1].name = "nonexistent_tool"
    /\ lastReply[1].result = TextResult("Error: Unknown tool: nonexistent_tool", TRUE)

\* C3: when the upstream call of a known tool succeeds, the handler returns
\* isError false and exactly one content element of type "text" whose text is
\* the response body serialized by JSON.stringify(body, null, 2).
C3_SuccessIsSerializedBody ==
    (CallReplied /\ lastReply[1].outcome # <<>> /\ lastReply[1].outcome[1].ok) =>
        LET r == lastReply[1]
            data == r.outcome[1].data
        IN  /\ r.name \in KnownTools
            /\ r.result.isError = FALSE
            /\ Len(r.result.content) = 1
            /\ r.result.content[1].type = "text"
            /\ r.result.content[1].text = Stringify(data, "")
            /\ data = JArr(<<>>) => r.result.content[1].text = "[]"
            /\ data = JStr("") => r.result.content[1].text = "\"\""
            /\ data = JObj(<<[k |-> "detail", v |-> JNull]>>) =>
                   r.result.content[1].text = "{\n  \"detail\": null\n}"

C3_Witness ==
    /\ CallReplied /\ lastReply[1].name = "get_highlights"
    /\ lastReply[1].outcome # <<>> /\ lastReply[1].outcome[1].ok
    /\ lastReply[1].outcome[1].data.t = "arr" /\ Len(lastReply[1].outcome[1].data.items) = 2
    /\ ~lastReply[1].result.isError

\* C4 as stated: in the payload of createOne / createMany no field holds the
\* empty string, a field that was the empty string in the input is absent
\* from the payload, and every other field is sent unchanged.
C4_EmptyStringsSentAsAbsent ==
    \A id \in DOMAIN upstream :
        IsCreate(awaiting[id]) =>
            LET ins == InputHighlights(awaiting[id])
                outs == upstream[id].body[1].highlights
            IN  /\ Len(outs) = Len(ins)
                /\ \A i \in DOMAIN ins :
                       /\ \A k \in DOMAIN outs[i] : outs[i][k] # JStr("")
                       /\ \A k \in DOMAIN ins[i] :
                              IF ins[i][k] = JStr("")
                              THEN k \notin DOMAIN outs[i]
                              ELSE k \in DOMAIN outs[i] /\ outs[i][k] = ins[i][k]

\* C4 as amended: in the payload of createOne / createMany no field holds the
\* empty string; a field that was the empty string in the input is sent with
\* the value null (its key is still present), every other field is sent
\* unchanged, and no key is added or removed.
C4_EmptyStringsSentAsNull ==
    \A id \in DOMAIN upstream :
        IsCreate(awaiting[id]) =>
            LET ins == InputHighlights(awaiting[id])
                outs == upstream[id].body[1].highlights
            IN  /\ Len(outs) = Len(ins)
                /\ \A i \in DOMAIN ins :
                       /\ DOMAIN outs[i] = DOMAIN ins[i]
                       /\ \A k \in DOMAIN ins[i] :
                              /\ outs[i][k] # JStr("")
                              /\ outs[i][k] = IF ins[i][k] = JStr("") THEN JNull
                                              ELSE ins[i][k]

C4_Witness ==
    \E id \in DOMAIN upstream :
        /\ awaiting[id].name = "create_highlight" /\ awaiting[id].args # Undefined
        /\ LET in == awaiting[id].args[1]
               out == upstream[id].body[1].highlights[1]
           IN  /\ DOMAIN in = Fields
               /\ in["text"] = JStr("") /\ in["note"] = JStr("") /\ in["location"] = JNum(7)
               /\ out["text"] = JNull /\ out["note"] = JNull /\ out["location"] = JNum(7)

\* C5: create_highlights sends its list in one POST to /highlights/ whose
\* highlights list has the length of the input and holds at position i the
\* normalized i-th input: order kept, nothing dropped, merged or deduplicated.
C5_BatchKeepsOrderAndLength ==
    \A id \in DOMAIN awaiting :
        (/\ awaiting[id].name = "create_highlights" /\ awaiting[id].args # Undefined
         /\ "highlights" \in DOMAIN awaiting[id].args[1]) =>
            LET ins == awaiting[id].args[1].highlights
            IN  /\ awaiting[id].sent = 1
                /\ id \in DOMAIN upstream
                /\ upstream[id].method = "POST" /\ upstream[id].path = "/highlights/"
                /\ Len(upstream[id].body) = 1
                /\ DOMAIN upstream[id].body[1] = {"highlights"}
                /\ Len(upstream[id].body[1].highlights) = Len(ins)
                /\ \A i \in DOMAIN ins :
                       LET out == upstream[id].body[1].highlights[i]
                       IN  /\ DOMAIN out = DOMAIN ins[i]
                           /\ \A k \in DOMAIN out :
                                  out[k] = IF ins[i][k] = JStr("") THEN JNull ELSE ins[i][k]

C5_Witness ==
    \E id \in DOMAIN awaiting :
        /\ awaiting[id].name = "create_highlights"
        /\ id \in DOMAIN upstream
        /\ awaiting[id].args[1].highlights = <<hb, hb>>
        /\ Len(upstream[id].body[1].highlights) = 2
        /\ upstream[id].body[1].highlights[1] = upstream[id].body[1].highlights[2]

\* C6 as stated: with a non-empty first command-line argument the process
\* gets through start-up whatever the environment variable and the .env file
\* hold, and every upstream request authenticates with that argument; an empty
\* first argument is not used as the token.
FirstArgGiven == Len(argv) > 0 /\ argv[1] # <<>>
C6_CommandLineTokenWins ==
    /\ FirstArgGiven =>
           /\ pc \in {"import", "main"} => Running
           /\ apiToken # <<>> => apiToken = <<argv[1]>>
           /\ \A id \in DOMAIN upstream : upstream[id].auth = Authorization(argv[1])
    /\ (Len(argv) > 0 /\ argv[1] = <<>>) => apiToken # << <<>> >>

\* C7: with no token in any of the three sources the process exits with a
\* non-zero status during start-up: it never gets past loading its modules,
\* never connects the transport and never serves a request.
NoToken ==
    /\ argv = <<>> /\ env = <<>>
    /\ ~envFile.exists \/ ~envFile.readable \/ envFile.line = <<>>
C7_NoTokenExitsNonZero ==
    /\ [](NoToken => /\ pc = "import" /\ ~connected /\ ~handlers
                     /\ invoked = 0 /\ httpCount = 0 /\ lastReply = <<>>
                     /\ exit \in {<<>>, <<1>>})
    /\ [][NoToken => exit' = <<1>>]_vars

C7_Witness == NoToken /\ envFile = LockedFile /\ exit = <<1>> /\ ~connected

\* C8: nothing is retried.  An invocation of a known tool whose arguments can
\* be interpreted issues exactly one upstream request (POST /highlights/ for
\* the create tools, GET /highlights/ for get_highlights), whether it succeeds
\* or fails; any other invocation issues none; the number of upstream requests
\* never exceeds the number of invocations.
ExpectedRequests(name, args) ==
    IF name \in {"create_highlight", "get_highlights"} THEN 1
    ELSE IF name = "create_highlights" /\ args # Undefined /\ "highlights" \in DOMAIN args[1]
    THEN 1
    ELSE 0
C8_OneRequestPerInvocation ==
    /\ httpCount <= invoked
    /\ DOMAIN upstream \subseteq DOMAIN awaiting
    /\ \A id \in DOMAIN awaiting :
           /\ awaiting[id].sent = ExpectedRequests(awaiting[id].name, awaiting[id].args)
           /\ awaiting[id].sent = 1 <=> id \in DOMAIN upstream
           /\ id \in DOMAIN upstream =>
                  /\ upstream[id].path = "/highlights/"
                  /\ upstream[id].method = IF IsCreate(awaiting[id]) THEN "POST" ELSE "GET"
    /\ CallReplied =>
           lastReply[1].sent = ExpectedRequests(lastReply[1].name, lastReply[1].args)

C8_Witness ==
    /\ CallReplied /\ lastReply[1].name = "create_highlights"
    /\ lastReply[1].outcome # <<>> /\ ~lastReply[1].outcome[1].ok
    /\ lastReply[1].sent = 1 /\ invoked = MaxRequests /\ httpCount = MaxRequests

\* C9: once the transport is connected the process keeps running and keeps
\* serving, whatever requests arrive, whatever their upstream calls do and
\* whatever exception or rejection reaches the process.
C9_ConnectedStaysAlive == connected => Running /\ handlers /\ pc = "serving"

C9_Witness ==
    /\ connected /\ Running /\ faults = MaxFaults
    /\ CallReplied /\ lastReply[1].result.isError /\ invoked = MaxRequests

\* C10 as stated: requests are handled one at a time; while the upstream call
\* of one call-tool request is pending no other handler has started and no
\* other upstream request has been issued.
C10_OneAtATime ==
    Cardinality(DOMAIN awaiting) <= 1 /\ Cardinality(DOMAIN upstream) <= 1

\* C10 as amended: handlers are not serialized.  A call-tool request that
\* arrives while earlier handlers are suspended at their await starts at once
\* and issues its own upstream request.  Every suspended invocation waits
\* either on exactly one pending upstream request, the one its own name and
\* arguments determine, or, having issued none, on the rejection of its
\* client call; no upstream request is pending without its invocation.
C10_InterleaveAtAwait ==
    /\ DOMAIN upstream \subseteq DOMAIN awaiting
    /\ \A id \in DOMAIN awaiting :
           LET plan == callToolStart(awaiting[id].name, awaiting[id].args)
           IN  /\ id \in 1..invoked
               /\ IF id \in DOMAIN upstream
                  THEN /\ ~plan.throws /\ awaiting[id].rejected = <<>>
                       /\ upstream[id].method = plan.method
                       /\ upstream[id].body = plan.body
                  ELSE /\ plan.throws /\ plan.rejects
                       /\ awaiting[id].rejected = <<plan.message>>
                       /\ awaiting[id].sent = 0
    /\ Cardinality(DOMAIN upstream) <= httpCount

C10_Witness ==
    /\ Cardinality(DOMAIN awaiting) = 2
    /\ \E i, j \in DOMAIN upstream : upstream[i].method = "GET" /\ upstream[j].method = "POST"

====
